---------------------------- MODULE Spec2Model ----------------------------
(***************************************************************************)
(* A model of src/index.ts: the Zod-to-Google schema translation           *)
(* (zodTypeToGoogleSchema), the tool catalog construction (processTools)   *)
(* and the run of main (MCPClient: constructor, connectToServer,           *)
(* processQuery, chatLoop, cleanup).                                       *)
(***************************************************************************)
EXTENDS Integers, Sequences, FiniteSets, TLC

VARIABLES
    zodType,        \* the argument handed to zodTypeToGoogleSchema
    schema,         \* what zodTypeToGoogleSchema returned for it, or NoSchema
    env,            \* process.env and process.platform
    pc,             \* where main's single control flow stands (the await it is suspended at)
    pathIdx,        \* the index into SERVER_PATHS of main's for loop
    transport,      \* MCPClient.transport
    connectPromise, \* the promise of this.mcp.connect(this.transport), which nothing awaits
    tools,          \* MCPClient.tools
    session,        \* MCPClient.session
    listToolsCalls, \* how many times mcp.listTools() was called
    listToolsResult, \* what mcp.listTools() answered last, or Null
    followUpCalls,  \* a follow-up response of this processQuery carried function calls
    rlOpen,         \* chatLoop's readline interface is open
    message,        \* chatLoop's message: the line read last
    queries,        \* how many times processQuery was called
    functionCalls,  \* processQuery: result.response.functionCalls() ?? []
    i,              \* processQuery: the position of the for loop in functionCalls
    finalText,      \* processQuery's finalText
    trace,          \* the provider and model calls of the current processQuery, as they start and end
    returned,       \* how the last processQuery ended: fulfilled with a value, or rejected
    console,        \* what was written to the console, in order
    cleanupCalls,   \* how many times MCPClient.cleanup was called
    mcpClosed,      \* mcp.close() has closed the connection to the provider
    exitCode        \* the exit code of the process, Running until it ends

tvars == <<zodType, schema>>

mvars == <<env, pc, pathIdx, transport, connectPromise, tools, session, listToolsCalls,
           listToolsResult, followUpCalls,
           rlOpen, message, queries, functionCalls, i, finalText, trace, returned,
           console, cleanupCalls, mcpClosed, exitCode>>

vars == <<zodType, schema, env, pc, pathIdx, transport, connectPromise, tools, session,
          listToolsCalls, listToolsResult, followUpCalls, rlOpen, message, queries, functionCalls, i, finalText, trace,
          returned, console, cleanupCalls, mcpClosed, exitCode>>

(***************************************************************************)
(* Values                                                                  *)
(***************************************************************************)
\* JavaScript's undefined, and "nothing yet" for a variable of the model.
Undefined == "undefined"
NoValue == "none"
\* No Schema returned yet.
NoSchema == [type |-> NoValue]

\* How many constructors are stacked on a leaf type in the translator's inputs.
MaxNest == 3

\* The Zod descriptions used as inputs: no description, or one.
Descriptions == {Undefined, "d"}

\* The SchemaType enumeration of @google/generative-ai.
SchemaType ==
    [STRING |-> "string", NUMBER |-> "number", INTEGER |-> "integer",
     BOOLEAN |-> "boolean", ARRAY |-> "array", OBJECT |-> "object"]

(***************************************************************************)
(* Zod types: a record per node, typeName standing for its class.          *)
(***************************************************************************)
ZodString(d) == [typeName |-> "ZodString", description |-> d]
ZodNumber(d, checks) == [typeName |-> "ZodNumber", description |-> d, checks |-> checks]
ZodBoolean(d) == [typeName |-> "ZodBoolean", description |-> d]
ZodEnum(d, values) == [typeName |-> "ZodEnum", description |-> d, values |-> values]
ZodArray(d, type) == [typeName |-> "ZodArray", description |-> d, type |-> type]
ZodObject(d, shape) == [typeName |-> "ZodObject", description |-> d, shape |-> shape]
ZodOptional(d, inner) == [typeName |-> "ZodOptional", description |-> d, innerType |-> inner]
ZodNullable(d, inner) == [typeName |-> "ZodNullable", description |-> d, innerType |-> inner]
ZodDefault(d, inner) == [typeName |-> "ZodDefault", description |-> d, innerType |-> inner]
\* Any class the translation has no branch for (ZodAny, ZodUnion, a plain object...).
ZodOther(d) == [typeName |-> "ZodAny", description |-> d]

\* The empty mapping, and a mapping of one key.
EmptyMap == [k \in {} |-> Undefined]
OneKey(k, v) == [x \in {k} |-> v]

\* The checks a ZodNumber carries, each a check's kind.
NumberChecks == {<<>>, <<"int">>, <<"min">>, <<"min", "int">>}

EnumValues == {<<>>, <<"b", "a">>}

ZodLeaves ==
    {ZodString(d) : d \in Descriptions}
    \cup {ZodNumber(Undefined, c) : c \in NumberChecks}
    \cup {ZodBoolean(Undefined)}
    \cup {ZodEnum(Undefined, v) : v \in EnumValues}
    \cup {ZodEnum("d", <<"b", "a">>)}
    \cup {ZodOther(d) : d \in Descriptions}
    \cup {ZodObject(d, EmptyMap) : d \in Descriptions}

\* One more constructor on each type of S.
ZodOver(S) ==
    {ZodOptional(d, t) : d \in Descriptions, t \in S}
    \cup {ZodNullable(Undefined, t) : t \in S}
    \cup {ZodDefault(Undefined, t) : t \in S}
    \cup {ZodArray(Undefined, t) : t \in S}
    \cup {ZodObject(Undefined, OneKey("x", t)) : t \in S}
    \cup {ZodObject(Undefined, [k \in {"x", "y"} |-> IF k = "x" THEN t ELSE ZodString(Undefined)]) : t \in S}

RECURSIVE ZodTypesUpTo(_)
ZodTypesUpTo(n) ==
    IF n = 0 THEN ZodLeaves ELSE ZodLeaves \cup ZodOver(ZodTypesUpTo(n - 1))

ZodTypes == ZodTypesUpTo(MaxNest)

(***************************************************************************)
(* zodTypeToGoogleSchema                                                   *)
(***************************************************************************)
IsWrapper(z) == z.typeName \in {"ZodOptional", "ZodNullable", "ZodDefault"}

\* if (zodType instanceof ZodOptional || zodType instanceof ZodNullable) zodType = zodType.unwrap()
UnwrapOptionalNullable(z) ==
    IF z.typeName \in {"ZodOptional", "ZodNullable"} THEN z.innerType ELSE z

\* if (zodType instanceof ZodDefault) zodType = zodType._def.innerType
UnwrapDefault(z) ==
    IF z.typeName = "ZodDefault" THEN z.innerType ELSE z

\* The three unwrapping statements, in the order of the code.
UnwrapModifiers(z) == UnwrapOptionalNullable(UnwrapDefault(UnwrapOptionalNullable(z)))

\* zodType._def.checks?.some(ch => ch.kind === 'int')
IsInt(z) == \E n \in 1..Len(z.checks) : z.checks[n] = "int"

RECURSIVE zodTypeToGoogleSchema(_)

StringSchema(z) == [type |-> SchemaType.STRING, description |-> z.description]

\* A translation that forgets the integer check.
NumberSchema_NoIntCheck(z) == [type |-> SchemaType.NUMBER, description |-> z.description]

NumberSchema(z) ==
    [type |-> IF IsInt(z) THEN SchemaType.INTEGER ELSE SchemaType.NUMBER,
     description |-> z.description]

BooleanSchema(z) == [type |-> SchemaType.BOOLEAN, description |-> z.description]

EnumSchema(z) ==
    [type |-> SchemaType.STRING, description |-> z.description,
     enum |-> z.values, format |-> "enum"]

ArraySchema(z) ==
    [type |-> SchemaType.ARRAY, description |-> z.description,
     items |-> zodTypeToGoogleSchema(z.type)]

\* A translation that sets properties only when the shape has a key.
ObjectSchema_NoEmptyProperties(z) ==
    IF DOMAIN z.shape = {}
    THEN [type |-> SchemaType.OBJECT, description |-> z.description]
    ELSE [type |-> SchemaType.OBJECT, description |-> z.description,
          properties |-> [key \in DOMAIN z.shape |-> zodTypeToGoogleSchema(z.shape[key])]]

ObjectSchema(z) ==
    [type |-> SchemaType.OBJECT, description |-> z.description,
     properties |-> [key \in DOMAIN z.shape |-> zodTypeToGoogleSchema(z.shape[key])]]

FallbackSchema(z) == [type |-> SchemaType.STRING, description |-> z.description]

\* The instanceof chain over the unwrapped type.
MapCoreType(z) ==
    CASE z.typeName = "ZodString" -> StringSchema(z)
      [] z.typeName = "ZodNumber" -> NumberSchema(z)
      [] z.typeName = "ZodBoolean" -> BooleanSchema(z)
      [] z.typeName = "ZodEnum" -> EnumSchema(z)
      [] z.typeName = "ZodArray" -> ArraySchema(z)
      [] z.typeName = "ZodObject" -> ObjectSchema(z)
      [] OTHER -> FallbackSchema(z)

zodTypeToGoogleSchema(z) == MapCoreType(UnwrapModifiers(z))

(***************************************************************************)
(* The run of main                                                         *)
(***************************************************************************)
\* At most this many queries are handed to processQuery in a run.
MaxQueries == 2
\* At most this many function calls come with one response of the model.
MaxCalls == 2

\* exitCode while the process runs.
Running == -1
\* JavaScript's null.
Null == [null |-> TRUE]
\* this.session = {} as ChatSession
EmptySession == [started |-> FALSE]
\* No processQuery has ended yet, or one is running.
NoResult == [status |-> NoValue]

\* A script path, its extension apart.
SERVER_PATHS == << <<"/git/kaggle-nodejs-mcp-server/build/index", ".js">> >>
SYSTEM_PROMPT == "You are an expert data analyst. Use the tools available to you to answer the user's questions."

\* !GEMINI_API_KEY
Falsy(v) == v \in {Undefined, ""}

\* serverScriptPath.endsWith(suffix)
EndsWith(path, suffix) == Len(path) > 0 /\ path[Len(path)] = suffix

\* The command the transport launches.
Command(path) ==
    IF EndsWith(path, ".py")
    THEN (IF env.platform = "win32" THEN "python" ELSE "python3")
    ELSE "process.execPath"

(***************************************************************************)
(* processTools                                                            *)
(***************************************************************************)
\* What the provider's listTools may answer.
GetDatasetMetadata ==
    [name |-> "get_dataset_metadata", description |-> "Fetch the metadata of a dataset",
     inputSchema |-> [type |-> "object", properties |-> OneKey("name", ZodString("d"))]]
ListFiles ==
    [name |-> "list_files", description |-> Undefined,
     inputSchema |-> [type |-> "object",
                      properties |-> [k \in {"limit", "tags"} |->
                          IF k = "limit"
                          THEN ZodOptional(Undefined, ZodNumber(Undefined, <<"int">>))
                          ELSE ZodArray(Undefined, ZodString(Undefined))]]]
Ping == [name |-> "ping", description |-> "Ping", inputSchema |-> [type |-> "object"]]

ToolsResults ==
    {[tools |-> <<>>], [tools |-> <<GetDatasetMetadata>>],
     [tools |-> <<ListFiles, GetDatasetMetadata, Ping>>]}

\* A map callback that never fills the properties in.
GoogleTool_NoProperties(tool) ==
    LET googleParameters ==
            [type |-> SchemaType.OBJECT, properties |-> EmptyMap,
             description |-> tool.description]
        funcDecl ==
            [name |-> tool.name, description |-> tool.description,
             parameters |-> googleParameters]
    IN [functionDeclarations |-> <<funcDecl>>]

\* The body of toolsResult.tools.map(tool => ...).
GoogleTool(tool) ==
    LET inputProperties ==
            IF "properties" \in DOMAIN tool.inputSchema
            THEN tool.inputSchema.properties ELSE EmptyMap
        googleProperties ==
            [key \in DOMAIN inputProperties |-> zodTypeToGoogleSchema(inputProperties[key])]
        googleParameters ==
            [type |-> SchemaType.OBJECT, properties |-> googleProperties,
             description |-> tool.description]
        funcDecl ==
            [name |-> tool.name, description |-> tool.description,
             parameters |-> googleParameters]
    IN [functionDeclarations |-> <<funcDecl>>]

processTools(toolsResult) ==
    [n \in 1..Len(toolsResult.tools) |-> GoogleTool(toolsResult.tools[n])]

\* this.gemini.startChat({systemInstruction, tools})
startChat(ts) ==
    [started |-> TRUE,
     systemInstruction |-> [role |-> "system", parts |-> <<[text |-> SYSTEM_PROMPT]>>],
     tools |-> ts]

(***************************************************************************)
(* Lines, responses and tool results                                       *)
(***************************************************************************)
\* The lines rl.question may read, each a sequence of characters.
Lines ==
    {<<"q", "u", "i", "t">>, <<" ", "Q", "u", "I", "T", " ">>,
     <<"q", "u", "i", "t", " ", "e">>}

LowerChar(c) ==
    CASE c = "Q" -> "q" [] c = "U" -> "u" [] c = "I" -> "i" [] c = "T" -> "t"
      [] OTHER -> c

\* message.toLowerCase()
ToLowerCase(str) == [n \in DOMAIN str |-> LowerChar(str[n])]

RECURSIVE TrimStart(_)
TrimStart(str) ==
    IF str # <<>> /\ Head(str) = " " THEN TrimStart(Tail(str)) ELSE str

RECURSIVE TrimEnd(_)
TrimEnd(str) ==
    IF str # <<>> /\ str[Len(str)] = " "
    THEN TrimEnd(SubSeq(str, 1, Len(str) - 1)) ELSE str

\* str.trim()
Trim(str) == TrimEnd(TrimStart(str))

\* message.toLowerCase().trim() === "quit"
IsQuit(line) == Trim(ToLowerCase(line)) = <<"q", "u", "i", "t">>

Texts == {"t1", "t2"}

\* The function calls the model may ask for; args holds the entries of the
\* argument object in their order.
PossibleCalls ==
    {[name |-> "get_dataset_metadata", args |-> << <<"name", "X">> >>],
     [name |-> "list_files", args |-> <<>>]}

CallSeqs == UNION {[1..n -> PossibleCalls] : n \in 1..MaxCalls}

\* What sendMessage may resolve to; functionCalls() is undefined without calls.
Responses ==
    {[text |-> t] : t \in Texts}
    \cup {[text |-> t, functionCalls |-> c] : t \in Texts, c \in CallSeqs}

\* What callTool may resolve to.
ToolCallResults ==
    {[content |-> <<>>],
     [content |-> <<[type |-> "text", text |-> "r"]>>],
     [content |-> <<[type |-> "image"]>>]}

\* result.response.functionCalls() ?? []
FunctionCallsOrEmpty(response) ==
    IF "functionCalls" \in DOMAIN response THEN response.functionCalls ELSE <<>>

RECURSIVE StringifyEntries(_)
StringifyEntries(args) ==
    IF args = <<>> THEN <<>>
    ELSE <<"\"", args[1][1], "\":\"", args[1][2], "\"">>
         \o (IF Len(args) > 1 THEN <<",">> ELSE <<>>)
         \o StringifyEntries(Tail(args))

\* JSON.stringify(toolArgs), as the pieces of the string
JSONStringify(args) == <<"{">> \o StringifyEntries(args) \o <<"}">>

\* `[Calling tool ${toolName} with args ${JSON.stringify(toolArgs)}]`
CallLine(call) ==
    <<"[Calling tool ", call.name, " with args ">> \o JSONStringify(call.args) \o <<"]">>

\* `Using the following information, answer the original query: ${result.content[0].text}`
Injection(result) ==
    <<"Using the following information, answer the original query: ",
      IF "text" \in DOMAIN result.content[1] THEN result.content[1].text ELSE Undefined>>

\* A join that puts nothing between the segments.
RECURSIVE Join_NoSeparator(_)
Join_NoSeparator(segs) ==
    IF segs = <<>> THEN <<>> ELSE segs[1] \o Join_NoSeparator(Tail(segs))

\* finalText.join("\n"), as the pieces of the string
RECURSIVE Join(_)
Join(segs) ==
    IF segs = <<>> THEN <<>>
    ELSE IF Len(segs) = 1 THEN segs[1]
    ELSE segs[1] \o <<"\n">> \o Join(Tail(segs))

(***************************************************************************)
(* The calls of a processQuery, as they start and end                      *)
(***************************************************************************)
\* sendMessage 0 carries the query, sendMessage k the result of call k.
Invoke(op, idx, arg) == [ev |-> "invoke", op |-> op, idx |-> idx, arg |-> arg]
Fulfilled(op, idx, value) == [ev |-> "fulfilled", op |-> op, idx |-> idx, value |-> value]
Rejected(op, idx) == [ev |-> "rejected", op |-> op, idx |-> idx]
Thrown(idx) == [ev |-> "throw", op |-> "TypeError", idx |-> idx]

Init ==
    /\ zodType = ZodString(Undefined)
    /\ schema = NoSchema
    /\ env \in [GEMINI_API_KEY : {Undefined, "", "key"}, platform : {"linux"}]
    /\ pc = "main"
    /\ pathIdx = 0
    /\ transport = Null
    /\ connectPromise = "none"
    /\ tools = <<>>
    /\ session = EmptySession
    /\ listToolsCalls = 0
    /\ listToolsResult = Null
    /\ followUpCalls = FALSE
    /\ rlOpen = FALSE
    /\ message = <<>>
    /\ queries = 0
    /\ functionCalls = <<>>
    /\ i = 0
    /\ finalText = <<>>
    /\ trace = <<>>
    /\ returned = NoResult
    /\ console = <<>>
    /\ cleanupCalls = 0
    /\ mcpClosed = FALSE
    /\ exitCode = Running

\* A promise is rejected and nothing handles it: Node ends the process with code 1.
UnhandledRejection ==
    /\ pc' = "exited"
    /\ exitCode' = 1

\* A constructor that does not look at the key.
Construct_NoKeyCheck ==
    /\ pc = "main"
    /\ pc' = "connectToServer"
    /\ pathIdx' = 1
    /\ UNCHANGED <<exitCode, tvars, listToolsResult, followUpCalls, env, transport, connectPromise, tools, session,
                   listToolsCalls, rlOpen, message, queries, functionCalls, i, finalText,
                   trace, returned, console, cleanupCalls, mcpClosed>>

\* main: new MCPClient(), outside the try block; then the for loop begins.
Construct ==
    /\ pc = "main"
    /\ IF Falsy(env.GEMINI_API_KEY)
       THEN /\ UnhandledRejection
            /\ UNCHANGED pathIdx
       ELSE /\ pc' = "connectToServer"
            /\ pathIdx' = 1
            /\ UNCHANGED exitCode
    /\ UNCHANGED <<tvars, listToolsResult, followUpCalls, env, transport, connectPromise, tools, session, listToolsCalls,
                   rlOpen, message, queries, functionCalls, i, finalText, trace, returned,
                   console, cleanupCalls, mcpClosed>>

\* connectToServer up to its await: the transport is made, mcp.connect is
\* called and not awaited, processTools calls mcp.listTools().
ConnectToServer ==
    /\ pc = "connectToServer"
    /\ LET serverScriptPath == SERVER_PATHS[pathIdx]
           isJs == EndsWith(serverScriptPath, ".js")
           isPy == EndsWith(serverScriptPath, ".py")
       IN IF ~isJs /\ ~isPy
          THEN /\ console' = Append(console, "Failed to connect to MCP server: ")
               /\ pc' = "finally"
               /\ UNCHANGED <<transport, connectPromise, listToolsCalls>>
          ELSE /\ transport' = [command |-> Command(serverScriptPath),
                                args |-> <<serverScriptPath>>]
               /\ connectPromise' = "pending"
               /\ listToolsCalls' = listToolsCalls + 1
               /\ pc' = "listTools"
               /\ UNCHANGED console
    /\ UNCHANGED <<tvars, listToolsResult, followUpCalls, env, pathIdx, tools, session, rlOpen, message, queries,
                   functionCalls, i, finalText, trace, returned, cleanupCalls, exitCode, mcpClosed>>

\* The connection is established: the promise of mcp.connect is fulfilled.
ConnectFulfilled ==
    /\ connectPromise = "pending"
    /\ pc # "exited"
    /\ connectPromise' = "fulfilled"
    /\ UNCHANGED <<tvars, listToolsResult, followUpCalls, env, pc, pathIdx, transport, tools, session, listToolsCalls,
                   rlOpen, message, queries, functionCalls, i, finalText, trace, returned,
                   console, cleanupCalls, mcpClosed, exitCode>>

\* The connection cannot be established: the promise of mcp.connect is
\* rejected, and nothing awaits or catches it.
ConnectRejected ==
    /\ connectPromise = "pending"
    /\ pc # "exited"
    /\ connectPromise' = "rejected"
    /\ UnhandledRejection
    /\ UNCHANGED <<tvars, listToolsResult, followUpCalls, env, pathIdx, transport, tools, session, listToolsCalls,
                   rlOpen, message, queries, functionCalls, i, finalText, trace, returned,
                   console, cleanupCalls, mcpClosed>>

\* mcp.listTools() is fulfilled: the rest of connectToServer, then the next
\* path of main's loop or the start of chatLoop.
ListToolsFulfilled(toolsResult) ==
    /\ pc = "listTools"
    /\ listToolsResult' = toolsResult
    /\ tools' = processTools(toolsResult)
    /\ session' = startChat(tools')
    /\ IF pathIdx < Len(SERVER_PATHS)
       THEN /\ pathIdx' = pathIdx + 1
            /\ pc' = "connectToServer"
            /\ console' = Append(console, "Connected to server with tools:")
            /\ UNCHANGED rlOpen
       ELSE /\ rlOpen' = TRUE
            /\ console' = console \o <<"Connected to server with tools:",
                                       "MCP Client Started!",
                                       "Type your queries or 'quit' to exit.">>
            /\ pc' = "question"
            /\ UNCHANGED pathIdx
    /\ UNCHANGED <<tvars, followUpCalls, env, transport, connectPromise, listToolsCalls,
                   message, queries, functionCalls, i, finalText, trace, returned,
                   cleanupCalls, exitCode, mcpClosed>>

\* A catch block that logs and does not rethrow: main goes on to chatLoop.
ListToolsRejected_Swallowed ==
    /\ pc = "listTools"
    /\ console' = console \o <<"Failed to connect to MCP server: ",
                               "MCP Client Started!",
                               "Type your queries or 'quit' to exit.">>
    /\ rlOpen' = TRUE
    /\ pc' = "question"
    /\ UNCHANGED <<tvars, listToolsResult, followUpCalls, env, pathIdx, transport, connectPromise, tools, session,
                   listToolsCalls, message, queries, functionCalls, i, finalText,
                   trace, returned, cleanupCalls, exitCode, mcpClosed>>

\* A catch block that starts the chat session without a catalog before it
\* rethrows.
ListToolsRejected_StartsSession ==
    /\ pc = "listTools"
    /\ console' = Append(console, "Failed to connect to MCP server: ")
    /\ session' = startChat(<<>>)
    /\ pc' = "finally"
    /\ UNCHANGED <<tvars, listToolsResult, followUpCalls, env, pathIdx, transport, connectPromise, tools,
                   listToolsCalls, rlOpen, message, queries, functionCalls, i, finalText,
                   trace, returned, cleanupCalls, exitCode, mcpClosed>>

\* mcp.listTools() is rejected: connectToServer logs and rethrows, main goes
\* to its finally block.
ListToolsRejected ==
    /\ pc = "listTools"
    /\ console' = Append(console, "Failed to connect to MCP server: ")
    /\ pc' = "finally"
    /\ UNCHANGED <<tvars, listToolsResult, followUpCalls, env, pathIdx, transport, connectPromise, tools, session,
                   listToolsCalls, rlOpen, message, queries, functionCalls, i, finalText,
                   trace, returned, cleanupCalls, exitCode, mcpClosed>>

\* A processQuery that catches the error and returns what it has so far.
Throw_ReturnPartial(err, tr) ==
    /\ trace' = tr
    /\ returned' = [status |-> "fulfilled", value |-> Join(finalText)]
    /\ console' = Append(console, "response")
    /\ pc' = "question"
    /\ UNCHANGED <<i, finalText, functionCalls, rlOpen>>

\* processQuery throws err: it catches nothing, so its promise is rejected;
\* chatLoop's catch around the while loop reports it, finally closes the
\* readline interface, chatLoop returns and main goes to its finally block.
Throw(err, tr) ==
    /\ trace' = tr
    /\ returned' = [status |-> "rejected", reason |-> err]
    /\ console' = Append(console, "error")
    /\ rlOpen' = FALSE
    /\ pc' = "finally"
    /\ UNCHANGED <<i, finalText, functionCalls>>

\* The head of the for loop at position k, with finalText ft: the next call
\* is announced and callTool is called, or finalText is joined and returned
\* and chatLoop prints it and asks again.
ForLoop(ft, calls, k, tr) ==
    IF k <= Len(calls)
    THEN /\ finalText' = Append(ft, CallLine(calls[k]))
         /\ i' = k
         /\ trace' = Append(tr, Invoke("callTool", k,
                                 [name |-> calls[k].name, arguments |-> calls[k].args]))
         /\ pc' = "callTool"
         /\ UNCHANGED <<returned, console>>
    ELSE /\ finalText' = ft
         /\ i' = k
         /\ trace' = tr
         /\ returned' = [status |-> "fulfilled", value |-> Join(ft)]
         /\ console' = Append(console, "response")
         /\ pc' = "question"

\* rl.question is fulfilled with a line: quit leaves the loop, anything else
\* goes to processQuery, which sends it to the session.
Question(line) ==
    /\ pc = "question"
    /\ IsQuit(line) \/ queries < MaxQueries
    /\ message' = line
    /\ IF IsQuit(line)
       THEN /\ rlOpen' = FALSE
            /\ pc' = "finally"
            /\ UNCHANGED <<queries, functionCalls, i, finalText, trace, returned,
                           followUpCalls>>
       ELSE /\ queries' = queries + 1
            /\ followUpCalls' = FALSE
            /\ functionCalls' = <<>>
            /\ i' = 0
            /\ finalText' = <<>>
            /\ trace' = <<Invoke("sendMessage", 0, line)>>
            /\ returned' = NoResult
            /\ pc' = "sendMessage"
            /\ UNCHANGED rlOpen
    /\ UNCHANGED <<tvars, listToolsResult, env, pathIdx, transport, connectPromise, tools,
                   session, listToolsCalls, console, cleanupCalls, exitCode, mcpClosed>>

\* this.session.sendMessage(query) is fulfilled.
SendMessageFulfilled(response) ==
    /\ pc = "sendMessage"
    /\ functionCalls' = FunctionCallsOrEmpty(response)
    /\ ForLoop(<<<<response.text>>>>, functionCalls', 1,
               Append(trace, Fulfilled("sendMessage", 0, response.text)))
    /\ UNCHANGED <<tvars, listToolsResult, followUpCalls, env, pathIdx, transport, connectPromise, tools, session,
                   listToolsCalls, rlOpen, message, queries, cleanupCalls, exitCode, mcpClosed>>

\* A processQuery that starts a new chat session when sendMessage fails.
SendMessageRejected_NewSession ==
    /\ pc = "sendMessage"
    /\ Throw("sendMessage failed", Append(trace, Rejected("sendMessage", 0)))
    /\ session' = startChat(tools)
    /\ tools' = <<>>
    /\ UNCHANGED <<tvars, listToolsResult, followUpCalls, env, pathIdx, transport, connectPromise,
                   listToolsCalls, message, queries, cleanupCalls, exitCode, mcpClosed>>

\* this.session.sendMessage(query) is rejected.
SendMessageRejected ==
    /\ pc = "sendMessage"
    /\ Throw("sendMessage failed", Append(trace, Rejected("sendMessage", 0)))
    /\ UNCHANGED <<tvars, listToolsResult, followUpCalls, env, pathIdx, transport, connectPromise, tools, session,
                   listToolsCalls, message, queries, cleanupCalls, exitCode, mcpClosed>>

\* A loop that sends the result to the session and goes on without awaiting
\* the answer.
CallToolFulfilled_NoAwait(result) ==
    /\ pc = "callTool"
    /\ result.content # <<>>
    /\ ForLoop(finalText, functionCalls, i + 1,
               trace \o <<Fulfilled("callTool", i, result),
                          Invoke("sendMessage", i, Injection(result))>>)
    /\ UNCHANGED <<tvars, listToolsResult, followUpCalls, env, pathIdx, transport, connectPromise, tools, session,
                   listToolsCalls, rlOpen, message, queries, functionCalls, cleanupCalls,
                   exitCode, mcpClosed>>

\* A loop that reads the text with optional chaining: content[0]?.text.
CallToolFulfilled_OptionalChaining(result) ==
    /\ pc = "callTool"
    /\ trace' = trace \o <<Fulfilled("callTool", i, result),
                            Invoke("sendMessage", i,
                                   IF result.content = <<>>
                                   THEN <<"Using the following information, answer the original query: ",
                                          Undefined>>
                                   ELSE Injection(result))>>
    /\ pc' = "followUp"
    /\ UNCHANGED <<i, finalText, functionCalls, returned, console, rlOpen>>
    /\ UNCHANGED <<tvars, listToolsResult, followUpCalls, env, pathIdx, transport, connectPromise, tools, session,
                   listToolsCalls, message, queries, cleanupCalls, exitCode, mcpClosed>>

\* this.mcp.callTool(...) is fulfilled: the text of the first element of its
\* content is sent to the session; reading it throws when there is no first
\* element.
CallToolFulfilled(result) ==
    /\ pc = "callTool"
    /\ IF result.content = <<>>
       THEN Throw("TypeError",
                  trace \o <<Fulfilled("callTool", i, result), Thrown(i)>>)
       ELSE /\ trace' = trace \o <<Fulfilled("callTool", i, result),
                                   Invoke("sendMessage", i, Injection(result))>>
            /\ pc' = "followUp"
            /\ UNCHANGED <<i, finalText, functionCalls, returned, console, rlOpen>>
    /\ UNCHANGED <<tvars, listToolsResult, followUpCalls, env, pathIdx, transport, connectPromise, tools, session,
                   listToolsCalls, message, queries, cleanupCalls, exitCode, mcpClosed>>

\* this.mcp.callTool(...) is rejected.
CallToolRejected ==
    /\ pc = "callTool"
    /\ Throw("callTool failed", Append(trace, Rejected("callTool", i)))
    /\ UNCHANGED <<tvars, listToolsResult, followUpCalls, env, pathIdx, transport, connectPromise, tools, session,
                   listToolsCalls, message, queries, cleanupCalls, exitCode, mcpClosed>>

\* A loop that also makes the calls a follow-up response asks for.
FollowUpFulfilled_MakesFollowUpCalls(response) ==
    /\ pc = "followUp"
    /\ ForLoop(Append(finalText, <<response.text>>),
               functionCalls \o FunctionCallsOrEmpty(response), i + 1,
               Append(trace, Fulfilled("sendMessage", i, response.text)))
    /\ followUpCalls' = (followUpCalls \/ FunctionCallsOrEmpty(response) # <<>>)
    /\ UNCHANGED <<tvars, listToolsResult, env, pathIdx, transport, connectPromise, tools,
                   session, listToolsCalls, rlOpen, message, queries, functionCalls,
                   cleanupCalls, exitCode, mcpClosed>>

\* The sendMessage that carries a tool result is fulfilled: its text is
\* pushed, the function calls of this response are not looked at.
FollowUpFulfilled(response) ==
    /\ pc = "followUp"
    /\ ForLoop(Append(finalText, <<response.text>>), functionCalls, i + 1,
               Append(trace, Fulfilled("sendMessage", i, response.text)))
    /\ followUpCalls' = (followUpCalls \/ FunctionCallsOrEmpty(response) # <<>>)
    /\ UNCHANGED <<tvars, listToolsResult, env, pathIdx, transport, connectPromise, tools, session,
                   listToolsCalls, rlOpen, message, queries, functionCalls, cleanupCalls,
                   exitCode, mcpClosed>>

\* The sendMessage that carries a tool result is rejected.
FollowUpRejected ==
    /\ pc = "followUp"
    /\ Throw("sendMessage failed", Append(trace, Rejected("sendMessage", i)))
    /\ UNCHANGED <<tvars, listToolsResult, followUpCalls, env, pathIdx, transport, connectPromise, tools, session,
                   listToolsCalls, message, queries, cleanupCalls, exitCode, mcpClosed>>

\* main's finally block: mcpClient.cleanup() calls this.mcp.close().
Cleanup ==
    /\ pc = "finally"
    /\ cleanupCalls' = cleanupCalls + 1
    /\ pc' = "close"
    /\ UNCHANGED <<tvars, listToolsResult, followUpCalls, env, pathIdx, transport, connectPromise, tools, session,
                   listToolsCalls, rlOpen, message, queries, functionCalls, i, finalText,
                   trace, returned, console, exitCode, mcpClosed>>

\* this.mcp.close() is fulfilled: process.exit(0).
CloseFulfilled ==
    /\ pc = "close"
    /\ mcpClosed' = TRUE
    /\ pc' = "exited"
    /\ exitCode' = 0
    /\ UNCHANGED <<tvars, listToolsResult, followUpCalls, env, pathIdx, transport, connectPromise, tools, session,
                   listToolsCalls, rlOpen, message, queries, functionCalls, i, finalText,
                   trace, returned, console, cleanupCalls>>

\* this.mcp.close() is rejected: the finally block throws before process.exit(0),
\* and nothing handles the rejection of main().
CloseRejected ==
    /\ pc = "close"
    /\ UnhandledRejection
    /\ UNCHANGED <<tvars, listToolsResult, followUpCalls, env, pathIdx, transport, connectPromise, tools, session,
                   listToolsCalls, rlOpen, message, queries, functionCalls, i, finalText,
                   trace, returned, console, cleanupCalls, mcpClosed>>

Next ==
    \/ Construct
    \/ ConnectToServer
    \/ ConnectFulfilled
    \/ ConnectRejected
    \/ \E toolsResult \in ToolsResults : ListToolsFulfilled(toolsResult)
    \/ ListToolsRejected
    \/ \E line \in Lines : Question(line)
    \/ \E response \in Responses : SendMessageFulfilled(response)
    \/ SendMessageRejected
    \/ \E result \in ToolCallResults : CallToolFulfilled(result)
    \/ CallToolRejected
    \/ \E response \in Responses : FollowUpFulfilled(response)
    \/ FollowUpRejected
    \/ Cleanup
    \/ CloseFulfilled
    \/ CloseRejected

Spec == Init /\ [][Next]_vars

(***************************************************************************)
(* The translation on its own: an input is drawn, the function is applied. *)
(***************************************************************************)
InitTranslate ==
    /\ zodType \in ZodTypes
    /\ schema = NoSchema
    /\ env = [GEMINI_API_KEY |-> "key", platform |-> "linux"]
    /\ pc = "zodTypeToGoogleSchema"
    /\ pathIdx = 0
    /\ transport = Null
    /\ connectPromise = "none"
    /\ tools = <<>>
    /\ session = EmptySession
    /\ listToolsCalls = 0
    /\ listToolsResult = Null
    /\ followUpCalls = FALSE
    /\ rlOpen = FALSE
    /\ message = <<>>
    /\ queries = 0
    /\ functionCalls = <<>>
    /\ i = 0
    /\ finalText = <<>>
    /\ trace = <<>>
    /\ returned = NoResult
    /\ console = <<>>
    /\ cleanupCalls = 0
    /\ mcpClosed = FALSE
    /\ exitCode = Running

Translate ==
    /\ schema = NoSchema
    /\ schema' = zodTypeToGoogleSchema(zodType)
    /\ UNCHANGED <<zodType, mvars>>

NextTranslate == Translate

SpecTranslate == InitTranslate /\ [][NextTranslate]_vars

(***************************************************************************)
(* Properties of the translation                                           *)
(***************************************************************************)
Translated == schema # NoSchema

\* The base type under every Optional, Nullable and Default of a chain.
RECURSIVE FullyUnwrapped(_)
FullyUnwrapped(z) == IF IsWrapper(z) THEN FullyUnwrapped(z.innerType) ELSE z

BaseTypeNames ==
    {"ZodString", "ZodNumber", "ZodBoolean", "ZodEnum", "ZodArray", "ZodObject"}

\* C1: translating a base type wrapped in any chain of Optional, Nullable and
\* Default, of any order and length, gives the schema that translating the
\* base type itself gives.
C1_ModifierInvariance ==
    (Translated /\ FullyUnwrapped(zodType).typeName \in BaseTypeNames)
        => schema = zodTypeToGoogleSchema(FullyUnwrapped(zodType))

SchemaKinds ==
    {SchemaType.STRING, SchemaType.NUMBER, SchemaType.INTEGER,
     SchemaType.BOOLEAN, SchemaType.ARRAY, SchemaType.OBJECT}

\* Every node of a schema has one of the six kinds, properties exactly when it
\* is an object and items exactly when it is an array.
RECURSIVE WellFormed(_)
WellFormed(s) ==
    /\ s.type \in SchemaKinds
    /\ ("properties" \in DOMAIN s) <=> (s.type = SchemaType.OBJECT)
    /\ ("items" \in DOMAIN s) <=> (s.type = SchemaType.ARRAY)
    /\ ("enum" \in DOMAIN s) => (s.type = SchemaType.STRING)
    /\ ("properties" \in DOMAIN s) => \A k \in DOMAIN s.properties : WellFormed(s.properties[k])
    /\ ("items" \in DOMAIN s) => WellFormed(s.items)

\* Schema s, returned for type z, has an enum list exactly at the nodes the
\* translation made from a ZodEnum.
RECURSIVE EnumFromEnum(_, _)
EnumFromEnum(z, s) ==
    LET u == UnwrapModifiers(z) IN
    /\ ("enum" \in DOMAIN s) <=> (u.typeName = "ZodEnum")
    /\ (u.typeName = "ZodArray" /\ "items" \in DOMAIN s) => EnumFromEnum(u.type, s.items)
    /\ (u.typeName = "ZodObject" /\ "properties" \in DOMAIN s) =>
          \A k \in DOMAIN u.shape \cap DOMAIN s.properties :
              EnumFromEnum(u.shape[k], s.properties[k])

\* C9: every node of the returned schema, at every depth, has one of the six
\* kinds, has properties iff it is an object, items iff it is an array and an
\* enum list iff it was made from an Enum; an empty Object gives an object
\* node whose properties mapping is present and empty.
C9_SchemaStructure ==
    Translated =>
        /\ WellFormed(schema)
        /\ EnumFromEnum(zodType, schema)
        /\ (zodType.typeName = "ZodObject" /\ DOMAIN zodType.shape = {}) =>
              /\ schema.type = SchemaType.OBJECT
              /\ "properties" \in DOMAIN schema
              /\ DOMAIN schema.properties = {}

\* An array of objects with an enum field has been translated, and so has an
\* empty object.
C9_Witness ==
    /\ Translated
    /\ zodType.typeName = "ZodArray"
    /\ zodType.type.typeName = "ZodObject"
    /\ "x" \in DOMAIN zodType.type.shape
    /\ zodType.type.shape["x"].typeName = "ZodEnum"
    /\ schema.type = SchemaType.ARRAY
    /\ schema.items.type = SchemaType.OBJECT
    /\ "enum" \in DOMAIN schema.items.properties["x"]

\* C10: on a type that is no wrapper, String gives string, Number gives integer
\* with an int check and number without, Boolean gives boolean, Enum gives
\* string of format "enum" with the values in their order, Array gives array
\* of the element's translation, Object gives object mapping every field to
\* its translation, anything else gives string; and on every input the
\* function yields a schema node rather than failing.
C10_BaseKindMapping ==
    /\ zodTypeToGoogleSchema(zodType).type \in SchemaKinds
    /\ (Translated /\ ~IsWrapper(zodType)) =>
        CASE zodType.typeName = "ZodString" ->
                 /\ schema.type = "string"
                 /\ DOMAIN schema = {"type", "description"}
          [] zodType.typeName = "ZodNumber" ->
                 /\ schema.type =
                        IF \E n \in DOMAIN zodType.checks : zodType.checks[n] = "int"
                        THEN "integer" ELSE "number"
                 /\ DOMAIN schema = {"type", "description"}
          [] zodType.typeName = "ZodBoolean" ->
                 /\ schema.type = "boolean"
                 /\ DOMAIN schema = {"type", "description"}
          [] zodType.typeName = "ZodEnum" ->
                 /\ schema.type = "string"
                 /\ DOMAIN schema = {"type", "description", "enum", "format"}
                 /\ schema.format = "enum"
                 /\ schema.enum = zodType.values
          [] zodType.typeName = "ZodArray" ->
                 /\ schema.type = "array"
                 /\ DOMAIN schema = {"type", "description", "items"}
                 /\ schema.items = zodTypeToGoogleSchema(zodType.type)
          [] zodType.typeName = "ZodObject" ->
                 /\ schema.type = "object"
                 /\ DOMAIN schema = {"type", "description", "properties"}
                 /\ DOMAIN schema.properties = DOMAIN zodType.shape
                 /\ \A k \in DOMAIN zodType.shape :
                        schema.properties[k] = zodTypeToGoogleSchema(zodType.shape[k])
          [] OTHER ->
                 /\ schema.type = "string"
                 /\ DOMAIN schema = {"type", "description"}

\* Object({x: Number(integer), y: String}) has been translated to an object
\* with an integer x and a string y.
C10_Witness ==
    /\ zodType = ZodObject(Undefined,
                    [k \in {"x", "y"} |->
                        IF k = "x" THEN ZodNumber(Undefined, <<"int">>)
                        ELSE ZodString(Undefined)])
    /\ schema = [type |-> "object", description |-> Undefined,
                 properties |-> [k \in {"x", "y"} |->
                     [type |-> IF k = "x" THEN "integer" ELSE "string",
                      description |-> Undefined]]]

(***************************************************************************)
(* Properties of the run of main                                           *)
(***************************************************************************)
InProcessQuery == pc \in {"sendMessage", "callTool", "followUp"}

\* connectToServer has thrown to main.
StartupFailed ==
    \E n \in DOMAIN console : console[n] = "Failed to connect to MCP server: "

\* The calls of the current processQuery that have started and not ended.
Pending ==
    {n \in DOMAIN trace :
        /\ trace[n].ev = "invoke"
        /\ ~\E m \in DOMAIN trace :
              /\ m > n
              /\ trace[m].ev \in {"fulfilled", "rejected"}
              /\ trace[m].op = trace[n].op
              /\ trace[m].idx = trace[n].idx}

\* The positions of trace where a call failed or processQuery itself threw.
Failures == {n \in DOMAIN trace : trace[n].ev \in {"rejected", "throw"}}

\* C2: when a processQuery fails inside chatLoop, the error is reported and
\* the loop asks for the next query: a failed query does not end the loop.
C2_FailedQueryKeepsLoop ==
    [][(InProcessQuery /\ returned'.status = "rejected")
          => (pc' = "question" /\ rlOpen' /\ console'[Len(console')] = "error")]_vars

\* C3: a run that ends by a normal quit exits with code 0, and a run whose
\* startup failed (connectToServer threw) exits with a code other than 0.
C3_ExitStatus ==
    pc = "exited" =>
        /\ (IsQuit(message) /\ mcpClosed /\ connectPromise # "rejected") => exitCode = 0
        /\ StartupFailed => exitCode # 0

\* C4: callTool for call k+1 starts only after callTool for call k and the
\* sendMessage carrying its result have both ended; the calls start in the
\* order the model gave them, with its names and arguments; and no two calls
\* of a query are pending at once.
C4_SequentialToolCalls ==
    /\ Cardinality(Pending) <= 1
    /\ \A n \in DOMAIN trace :
          (trace[n].ev = "invoke" /\ trace[n].op = "callTool") =>
              LET k == trace[n].idx IN
              /\ k \in 1..Len(functionCalls)
              /\ trace[n].arg = [name |-> functionCalls[k].name,
                                 arguments |-> functionCalls[k].args]
              /\ Cardinality({m \in 1..(n - 1) :
                     trace[m].ev = "invoke" /\ trace[m].op = "callTool"}) = k - 1
              /\ k > 1 =>
                    \E a \in 1..(n - 1) : \E b \in (a + 1)..(n - 1) :
                        /\ trace[a].ev = "fulfilled" /\ trace[a].op = "callTool"
                        /\ trace[a].idx = k - 1
                        /\ trace[b].ev = "fulfilled" /\ trace[b].op = "sendMessage"
                        /\ trace[b].idx = k - 1

\* The second tool call of a response has been made.
C4_Witness ==
    \E n \in DOMAIN trace :
        trace[n].ev = "invoke" /\ trace[n].op = "callTool" /\ trace[n].idx = 2

\* The segments of a text: what stands between its line breaks.
RECURSIVE Split(_)
Split(str) ==
    IF \E n \in DOMAIN str : str[n] = "\n"
    THEN LET n == CHOOSE n \in DOMAIN str :
                     str[n] = "\n" /\ \A m \in 1..(n - 1) : str[m] # "\n"
         IN <<SubSeq(str, 1, n - 1)>> \o Split(SubSeq(str, n + 1, Len(str)))
    ELSE <<str>>

\* The text the session answered to sendMessage k of the current query.
AnswerText(k) ==
    LET n == CHOOSE n \in DOMAIN trace :
                 trace[n].ev = "fulfilled" /\ trace[n].op = "sendMessage" /\ trace[n].idx = k
    IN trace[n].value

\* C5: a processQuery whose first response asks for n tool calls returns
\* 1 + 2n segments joined by line breaks: the first response's text, then for
\* each call in the model's order the line naming the tool and its arguments
\* and the text answered to that call's result.
C5_OutputStructure ==
    returned.status = "fulfilled" =>
        LET n == Len(functionCalls)
            segments == Split(returned.value)
        IN /\ Len(segments) = 1 + 2 * n
           /\ segments[1] = <<AnswerText(0)>>
           /\ \A k \in 1..n :
                 /\ segments[2 * k] =
                        <<"[Calling tool ", functionCalls[k].name, " with args ">>
                        \o JSONStringify(functionCalls[k].args) \o <<"]">>
                 /\ segments[2 * k + 1] = <<AnswerText(k)>>

\* A query with two tool calls, the two answered differently, has returned.
C5_Witness ==
    /\ returned.status = "fulfilled"
    /\ Len(functionCalls) = 2
    /\ functionCalls[1] # functionCalls[2]
    /\ AnswerText(1) # AnswerText(2)

\* C6: when the first sendMessage, a callTool or a follow-up sendMessage
\* fails, processQuery is rejected with that error and returns no output,
\* and nothing of that query is called after the failing step.
C6_AllOrNothing ==
    /\ \A n \in Failures :
          /\ n = Len(trace)
          /\ returned.status = "rejected"
          /\ DOMAIN returned = {"status", "reason"}
          /\ returned.reason =
                 IF trace[n].ev = "throw" THEN "TypeError"
                 ELSE IF trace[n].op = "callTool" THEN "callTool failed"
                 ELSE "sendMessage failed"
    /\ returned.status = "rejected" => Failures # {}
    /\ returned.status = "fulfilled" => Failures = {}

\* A query failed at its first tool call with a second one still to make,
\* after two segments had been pushed.
C6_Witness ==
    /\ returned.status = "rejected"
    /\ Len(functionCalls) = 2
    /\ i = 1
    /\ Len(finalText) = 2
    /\ trace[Len(trace)] = Rejected("callTool", 1)

\* connectToServer has returned to main without throwing.
ConnectReturned ==
    \E n \in DOMAIN console : console[n] = "Connected to server with tools:"

\* C7: when the provider connection cannot be established, connectToServer
\* fails rather than returns, and the client is not connected: no catalog is
\* registered and no chat session is started.
C7_ConnectFailurePropagates ==
    connectPromise = "rejected" =>
        /\ ~ConnectReturned
        /\ tools = <<>>
        /\ session = EmptySession

\* C8: without an API key the constructor throws, and no connection is
\* launched, no tool listing is requested and the loop is never entered.
C8_MissingKeyIsFatal ==
    Falsy(env.GEMINI_API_KEY) =>
        /\ pc \in {"main", "exited"}
        /\ pc = "exited" => exitCode # 0
        /\ transport = Null
        /\ connectPromise = "none"
        /\ listToolsCalls = 0
        /\ ~rlOpen
        /\ queries = 0
        /\ console = <<>>
        /\ session = EmptySession

\* The process has ended on a missing key.
C8_Witness ==
    /\ Falsy(env.GEMINI_API_KEY)
    /\ pc = "exited"
    /\ exitCode = 1


\* C11: the description of the returned schema is the description of the
\* type handed in, also when that type is an Optional, Nullable or Default
\* that carries the description; it is absent when the type has none.
C11_DescriptionPassThrough ==
    Translated => schema.description = zodType.description

\* C16: mcp.listTools() is called, and the chat session started, only after
\* the connection begun by mcp.connect is established, never while it is
\* still pending.
C16_ListToolsAfterConnect ==
    connectPromise = "pending" =>
        /\ listToolsCalls = 0
        /\ pc # "listTools"
        /\ session = EmptySession

\* C13: when mcp.listTools() fails during connectToServer, connectToServer
\* throws to main, and the catalog and the chat session stay as they were
\* before the call.
C13_NoPartialCatalog ==
    [][(pc = "listTools" /\ StartupFailed')
          => (pc' = "finally" /\ tools' = tools /\ session' = session)]_vars

\* connectToServer has thrown after calling mcp.listTools().
C13_Witness ==
    /\ StartupFailed
    /\ listToolsCalls = 1
    /\ tools = <<>>
    /\ session = EmptySession

\* The positions of trace where call k's result was sent to the session.
InjectionsOf(k) ==
    {n \in DOMAIN trace :
        trace[n].ev = "invoke" /\ trace[n].op = "sendMessage" /\ trace[n].idx = k}

\* C15: when callTool answers with an empty content list, processQuery is
\* rejected with the error that reading the first element's text throws,
\* and no message for that call is sent to the session.
C15_EmptyContentThrows ==
    \A n \in DOMAIN trace :
        (/\ trace[n].ev = "fulfilled"
         /\ trace[n].op = "callTool"
         /\ trace[n].value.content = <<>>) =>
            /\ returned = [status |-> "rejected", reason |-> "TypeError"]
            /\ InjectionsOf(trace[n].idx) = {}
            /\ pc \notin {"followUp", "question"}

\* The second tool call of a query has answered with an empty content list.
C15_Witness ==
    /\ Len(trace) > 0
    /\ trace[Len(trace)] = Thrown(2)
    /\ returned.status = "rejected"


\* C18: processQuery, whether it succeeds or fails, leaves the catalog, the
\* chat session and the provider connection handle as they are; the catalog
\* and the session change only in connectToServer, after mcp.listTools(),
\* and together: the session is started with the new catalog.
C18_CatalogImmutable ==
    [][/\ (pc \in {"question", "sendMessage", "callTool", "followUp"}) =>
              (tools' = tools /\ session' = session /\ transport' = transport)
       /\ (tools' # tools \/ session' # session) =>
              (pc = "listTools" /\ session' = startChat(tools'))]_vars

\* With a catalog registered, one processQuery has succeeded and the next
\* has failed.
C18_Witness ==
    /\ queries = 2
    /\ returned.status = "rejected"
    /\ tools # <<>>
    /\ session = startChat(tools)

\* How many times connectToServer has returned to main without throwing.
ConnectReturns ==
    Cardinality({n \in DOMAIN console : console[n] = "Connected to server with tools:"})

\* C20: processQuery is called only when connectToServer has returned
\* without throwing for every path of SERVER_PATHS, so that the session in
\* use was started with the catalog built, and never after cleanup was called.
C20_QueryOnlyWhenConnected ==
    [][queries' # queries =>
          /\ ConnectReturns = Len(SERVER_PATHS)
          /\ ~StartupFailed
          /\ session.started
          /\ session.tools = tools
          /\ cleanupCalls = 0
          /\ cleanupCalls' = 0]_vars

\* A query was processed and cleanup was called afterwards.
C20_Witness ==
    /\ queries >= 1
    /\ cleanupCalls = 1

C19_CleanupExactlyOnce ==
    /\ cleanupCalls <= 1
    /\ cleanupCalls = 1 => pc \in {"close", "exited"}
    /\ (pc = "exited" /\ ~Falsy(env.GEMINI_API_KEY)) => cleanupCalls = 1


\* The names of a tool's top-level parameters.
ParameterNames(tool) ==
    IF "properties" \in DOMAIN tool.inputSchema
    THEN DOMAIN tool.inputSchema.properties ELSE {}

\* C12: every build of the catalog calls mcp.listTools() once, and the
\* catalog holds one declaration per tool listed, in the order listed, with
\* the tool's name and description, whose parameters are an object schema
\* with exactly the tool's top-level parameter names as properties, each the
\* translation of that parameter, and without a list of required fields.
C12_CatalogConstruction ==
    /\ listToolsCalls <= pathIdx
    /\ ConnectReturns <= listToolsCalls
    /\ listToolsCalls <= ConnectReturns + 1
    /\ listToolsResult = Null => tools = <<>>
    /\ listToolsResult # Null =>
          /\ ConnectReturns = listToolsCalls
          /\ Len(tools) = Len(listToolsResult.tools)
          /\ \A n \in DOMAIN tools :
                LET tool == listToolsResult.tools[n]
                    decls == tools[n].functionDeclarations
                IN /\ Len(decls) = 1
                   /\ decls[1].name = tool.name
                   /\ decls[1].description = tool.description
                   /\ decls[1].parameters.type = SchemaType.OBJECT
                   /\ "required" \notin DOMAIN decls[1].parameters
                   /\ DOMAIN decls[1].parameters.properties = ParameterNames(tool)
                   /\ \A key \in ParameterNames(tool) :
                         decls[1].parameters.properties[key]
                             = zodTypeToGoogleSchema(tool.inputSchema.properties[key])

\* A catalog was built from three tools, one of them without parameters.
C12_Witness ==
    /\ listToolsResult # Null
    /\ Len(listToolsResult.tools) = 3
    /\ Len(tools) = 3
    /\ \E n \in DOMAIN tools : ParameterNames(listToolsResult.tools[n]) = {}
    /\ \E n \in DOMAIN tools : Cardinality(ParameterNames(listToolsResult.tools[n])) = 2

CallToolInvocations ==
    {n \in DOMAIN trace : trace[n].ev = "invoke" /\ trace[n].op = "callTool"}

MessagesSent ==
    {n \in DOMAIN trace : trace[n].ev = "invoke" /\ trace[n].op = "sendMessage"}

\* C17: a processQuery whose first response asks for n tool calls never makes
\* more than n callTool calls nor sends more than n + 1 messages, and when it
\* returns its text it has made exactly n and sent exactly n + 1: the query,
\* then for each call one message carrying that call's result, sent after
\* the result arrived; calls asked for by a follow-up response change none
\* of this.
C17_RoundTripCounts ==
    /\ Cardinality(CallToolInvocations) <= Len(functionCalls)
    /\ Cardinality(MessagesSent) <= Len(functionCalls) + 1
    /\ returned.status = "fulfilled" =>
          /\ Cardinality(CallToolInvocations) = Len(functionCalls)
          /\ Cardinality(MessagesSent) = Len(functionCalls) + 1
          /\ trace[1] = Invoke("sendMessage", 0, trace[1].arg)
          /\ ~IsQuit(message) => trace[1].arg = message
          /\ \A k \in 1..Len(functionCalls) :
                /\ Cardinality(InjectionsOf(k)) = 1
                /\ \E a \in DOMAIN trace : \E b \in DOMAIN trace :
                      /\ a < b
                      /\ trace[a].ev = "fulfilled"
                      /\ trace[a].op = "callTool"
                      /\ trace[a].idx = k
                      /\ trace[b] = Invoke("sendMessage", k, Injection(trace[a].value))

\* A processQuery with two tool calls has returned its text, and one of its
\* follow-up responses asked for further calls.
C17_Witness ==
    /\ returned.status = "fulfilled"
    /\ Len(functionCalls) = 2
    /\ followUpCalls

=============================================================================
